---------------------------- MODULE Spec2Model ----------------------------
(***************************************************************************)
(* Streaming primitives of app/algorithms.py: MinHeap, TopKFrequent,       *)
(* MedianCalculator and AnomalyDetector.  Every instance is a single-      *)
(* threaded in-memory accumulator; one behaviour of a specification below  *)
(* follows one instance from its construction through a sequence of calls. *)
(* Python lists are 0-indexed, TLA+ sequences 1-indexed: the element the   *)
(* code calls h[i] is h[i + 1] here, and the index arithmetic (parent,     *)
(* left, right) is kept 0-based as in the source.                          *)
(***************************************************************************)
EXTENDS Integers, Sequences, FiniteSets, TLC

VARIABLES
    obj,          \* the class of the instance this behaviour follows
    heap,         \* MinHeap.heap: list of (priority, value) tuples
    heap_ret,     \* what the last MinHeap call returned
    popped,       \* history: priorities popped since the last push
    npush,        \* history: number of push calls so far
    k,            \* TopKFrequent.k
    tk_heap,      \* TopKFrequent.heap.heap
    counts,       \* TopKFrequent.counts: dict item -> count
    nadds,        \* history: number of add calls per item
    tk_op,        \* history: the last TopKFrequent call
    ngets,        \* history: get_top_k() calls so far, counted up to 2
    tk_result,    \* what the last get_top_k() returned
    max_heap,     \* MedianCalculator.max_heap (lower half)
    min_heap,     \* MedianCalculator.min_heap (upper half)
    fed,          \* history: the values passed to MedianCalculator.add
    med_ret,      \* the outcome of the last MedianCalculator call
    window_size,  \* AnomalyDetector.window_size
    threshold,    \* AnomalyDetector.threshold
    values,       \* AnomalyDetector.values
    mean,         \* AnomalyDetector.mean
    variance,     \* AnomalyDetector.variance
    an_ret,       \* what the last AnomalyDetector.add returned
    stream,       \* history: the values passed to AnomalyDetector.add
    trips,        \* the trips table: rows of (pickup_hour, trip_speed_kmh)
    session,      \* the database session of the last request
    response      \* what the last request to median_speed_by_hour produced

heapVars   == <<heap, heap_ret, popped, npush>>
topkVars   == <<k, tk_heap, counts, nadds, tk_op, ngets, tk_result>>
medianVars == <<max_heap, min_heap, fed, med_ret>>
anomalyVars == <<window_size, threshold, values, mean, variance, an_ret, stream>>
apiVars == <<trips, session, response>>
vars == <<obj, heapVars, topkVars, medianVars, anomalyVars, apiVars>>

(***************************************************************************)
(* Bounds of the model.                                                    *)
(***************************************************************************)
MaxPush == 6
MaxPriority == 3
MaxK == 3
MaxAdds == 4
MaxValue == 2
MaxFed == 8
MaxWindow == 3
MaxStream == 5
MaxBaseline == 9
MaxTrips == 3
MaxHour == 1

Priorities == 1..MaxPriority
Payloads == {"a", "b"}
Items == {"A", "B", "C", "D"}
Deltas == {2, 3, 5, 8}
Numbers == (0 - 1)..(MaxValue - 1)
Samples == {9, 10, 11, 40}
Baseline == 9..11
Outliers == {1000}

\* Python's None
None == <<>>

\* MedianCalculator: no get_median() call made yet, nothing raised
NotCalled == [called |-> FALSE, raised |-> FALSE, ret |-> None]

\* no request was handled yet
NoResponse == [kind |-> "none"]

\* AnomalyDetector.__init__: window_size: int = 100
DefaultWindowSize == 100

\* AnomalyDetector.__init__: threshold: float = 2.5, as a rational
DefaultThreshold == <<5, 2>>

(***************************************************************************)
(* Exact rational arithmetic for Python's true division and the running    *)
(* statistics: a number is <<numerator, denominator>> in lowest terms with *)
(* a positive denominator.                                                 *)
(***************************************************************************)
Abs(x) == IF x < 0 THEN 0 - x ELSE x

RECURSIVE Gcd(_, _)
Gcd(a, b) == IF b = 0 THEN a ELSE Gcd(b, a % b)

Rat(n, d) ==
    LET s == IF d < 0 THEN 0 - 1 ELSE 1
        g == Gcd(Abs(n), Abs(d))
    IN  <<(s * n) \div g, (s * d) \div g>>

RInt(n) == <<n, 1>>
\* sums and products cancel common factors before multiplying
RAdd(x, y) ==
    LET g == Gcd(x[2], y[2])
    IN  Rat(x[1] * (y[2] \div g) + y[1] * (x[2] \div g), (x[2] \div g) * y[2])
RNeg(x) == <<0 - x[1], x[2]>>
RSub(x, y) == RAdd(x, RNeg(y))
RMul(x, y) ==
    LET a == Rat(x[1], y[2])
        b == Rat(y[1], x[2])
    IN  <<a[1] * b[1], a[2] * b[2]>>
RInv(x) == Rat(x[2], x[1])
RDiv(x, y) == RMul(x, RInv(y))
RLess(x, y) == RSub(x, y)[1] < 0
RAbs(x) == <<Abs(x[1]), x[2]>>

(***************************************************************************)
(* class MinHeap                                                           *)
(***************************************************************************)
parent(i) == (i - 1) \div 2
left(i) == 2 * i + 1
right(i) == 2 * i + 2

swap(h, i, j) == [h EXCEPT ![i + 1] = h[j + 1], ![j + 1] = h[i + 1]]

\* mutant of heapify_up: "if" for "while", the entry rises one level at most
heapify_up_once(h, i) ==
    IF i > 0 /\ h[parent(i) + 1][1] > h[i + 1][1]
    THEN swap(h, i, parent(i))
    ELSE h

RECURSIVE heapify_up(_, _)
heapify_up(h, i) ==
    IF i > 0
    THEN LET p == parent(i)
         IN  IF h[p + 1][1] <= h[i + 1][1]
             THEN h
             ELSE heapify_up(swap(h, i, p), p)
    ELSE h

\* mutant of heapify_down: the right child is compared with heap[i], not
\* with heap[smallest]
RECURSIVE heapify_down_right_vs_i(_, _)
heapify_down_right_vs_i(h, i) ==
    LET lf == left(i)
        rt == right(i)
        s1 == IF lf < Len(h) /\ h[lf + 1][1] < h[i + 1][1] THEN lf ELSE i
        smallest == IF rt < Len(h) /\ h[rt + 1][1] < h[i + 1][1] THEN rt ELSE s1
    IN  IF smallest = i
        THEN h
        ELSE heapify_down_right_vs_i(swap(h, i, smallest), smallest)

RECURSIVE heapify_down(_, _)
heapify_down(h, i) ==
    LET lf == left(i)
        rt == right(i)
        s1 == IF lf < Len(h) /\ h[lf + 1][1] < h[i + 1][1] THEN lf ELSE i
        smallest == IF rt < Len(h) /\ h[rt + 1][1] < h[s1 + 1][1] THEN rt ELSE s1
    IN  IF smallest = i
        THEN h
        ELSE heapify_down(swap(h, i, smallest), smallest)

\* MinHeap.push: the list after push(item)
push(h, item) == heapify_up(Append(h, item), Len(h))

\* mutant of pop: the last element is dropped, never moved to the root
pop_no_swap(h) ==
    IF h = <<>>
    THEN [heap |-> h, ret |-> None]
    ELSE IF Len(h) = 1
    THEN [heap |-> <<>>, ret |-> h[1]]
    ELSE [heap |-> heapify_down(SubSeq(h, 1, Len(h) - 1), 0), ret |-> h[1]]

\* MinHeap.pop: the list after pop() and the value pop() returns
pop(h) ==
    IF h = <<>>
    THEN [heap |-> h, ret |-> None]
    ELSE IF Len(h) = 1
    THEN [heap |-> <<>>, ret |-> h[1]]
    ELSE LET last == h[Len(h)]
             rest == SubSeq(h, 1, Len(h) - 1)
         IN  [heap |-> heapify_down([rest EXCEPT ![1] = last], 0), ret |-> h[1]]

\* mutant of peek: heap[-1] for heap[0]
peek_last(h) == IF h /= <<>> THEN h[Len(h)] ELSE None

\* MinHeap.peek
peek(h) == IF h /= <<>> THEN h[1] ELSE None

HeapInit ==
    /\ obj = "MinHeap"
    /\ heap = <<>>
    /\ heap_ret = None
    /\ popped = <<>>
    /\ npush = 0
    \* no other instance exists in this behaviour
    /\ k = 0
    /\ tk_heap = <<>>
    /\ counts = <<>>
    /\ nadds = <<>>
    /\ tk_op = "none"
    /\ ngets = 0
    /\ tk_result = <<>>
    /\ max_heap = <<>>
    /\ min_heap = <<>>
    /\ fed = <<>>
    /\ med_ret = NotCalled
    /\ window_size = 0
    /\ threshold = DefaultThreshold
    /\ values = <<>>
    /\ mean = RInt(0)
    /\ variance = RInt(0)
    /\ an_ret = FALSE
    /\ stream = <<>>
    /\ trips = <<>>
    /\ session = "none"
    /\ response = NoResponse

Push ==
    /\ obj = "MinHeap"
    /\ npush < MaxPush
    /\ \E p \in Priorities, v \in Payloads :
          heap' = push(heap, <<p, v>>)
    /\ heap_ret' = None
    /\ popped' = <<>>
    /\ npush' = npush + 1
    /\ UNCHANGED <<obj, apiVars, topkVars, medianVars, anomalyVars>>

Pop ==
    /\ obj = "MinHeap"
    /\ heap' = pop(heap).heap
    /\ heap_ret' = pop(heap).ret
    /\ popped' = IF heap = <<>> THEN popped ELSE Append(popped, pop(heap).ret[1])
    /\ UNCHANGED npush
    /\ UNCHANGED <<obj, apiVars, topkVars, medianVars, anomalyVars>>

Peek ==
    /\ obj = "MinHeap"
    /\ heap_ret' = peek(heap)
    /\ UNCHANGED <<heap, popped, npush>>
    /\ UNCHANGED <<obj, apiVars, topkVars, medianVars, anomalyVars>>



(***************************************************************************)
(* class TopKFrequent.  Heap entries are (count, item) tuples.             *)
(***************************************************************************)
\* mutant of add_counts: "=" for "+="
add_counts_overwrite(c, item, count) ==
    IF item \in DOMAIN c
    THEN [c EXCEPT ![item] = count]
    ELSE c @@ (item :> count)

\* add, lines 85-88: the frequency table after add(item, count)
add_counts(c, item, count) ==
    IF item \in DOMAIN c
    THEN [c EXCEPT ![item] = @ + count]
    ELSE c @@ (item :> count)

\* mutant of add_heap: a full heap never evicts its minimum
add_heap_no_evict(kk, h, item, newcount) ==
    IF Len(h) < kk
    THEN push(h, <<newcount, item>>)
    ELSE h

\* mutant of add_heap: "<=" for "<" in the size test
add_heap_off_by_one(kk, h, item, newcount) ==
    IF Len(h) <= kk
    THEN push(h, <<newcount, item>>)
    ELSE LET min_item == peek(h)
         IN  IF min_item /= None /\ newcount > min_item[1]
             THEN push(pop(h).heap, <<newcount, item>>)
             ELSE h

\* mutant of add_heap: ">=" for ">" in the comparison with the minimum
add_heap_ge(kk, h, item, newcount) ==
    IF Len(h) < kk
    THEN push(h, <<newcount, item>>)
    ELSE LET min_item == peek(h)
         IN  IF min_item /= None /\ newcount >= min_item[1]
             THEN push(pop(h).heap, <<newcount, item>>)
             ELSE h

\* add, lines 91-97: the bounded heap after add(item, .), given the new count
add_heap(kk, h, item, newcount) ==
    IF Len(h) < kk
    THEN push(h, <<newcount, item>>)
    ELSE LET min_item == peek(h)
         IN  IF min_item /= None /\ newcount > min_item[1]
             THEN push(pop(h).heap, <<newcount, item>>)
             ELSE h

\* "while heap: item = heap.pop(); ..." : the items popped, in order, and the heap left
RECURSIVE drain(_)
drain(h) ==
    IF Len(h) = 0
    THEN [items |-> <<>>, heap |-> h]
    ELSE LET r == pop(h)
             d == drain(r.heap)
         IN  [items |-> <<r.ret>> \o d.items, heap |-> d.heap]

RECURSIVE push_all(_, _)
push_all(h, s) == IF s = <<>> THEN h ELSE push_all(push(h, Head(s)), Tail(s))

\* list.sort(key=lambda x: x[0], reverse=True): stable, descending by count
insert_desc(sorted, x) ==
    LET n == Cardinality({i \in 1..Len(sorted) : sorted[i][1] >= x[1]})
    IN  SubSeq(sorted, 1, n) \o <<x>> \o SubSeq(sorted, n + 1, Len(sorted))

RECURSIVE sort_desc(_)
sort_desc(s) ==
    IF s = <<>>
    THEN <<>>
    ELSE insert_desc(sort_desc(SubSeq(s, 1, Len(s) - 1)), s[Len(s)])

\* get_top_k: the list returned and self.heap.heap as the call leaves it
get_top_k(h) ==
    LET d == drain(h)
        temp_heap == push_all(<<>>, d.items)
        items == sort_desc(drain(temp_heap).items)
    IN  [result |-> [i \in 1..Len(items) |-> <<items[i][2], items[i][1]>>],
         heap |-> d.heap]

RECURSIVE SumOver(_, _)
SumOver(f, S) ==
    IF S = {} THEN 0
    ELSE LET x == CHOOSE y \in S : TRUE IN f[x] + SumOver(f, S \ {x})

TopKInit ==
    /\ obj = "TopKFrequent"
    /\ k \in 0..MaxK
    /\ tk_heap = <<>>
    /\ counts = <<>>
    /\ nadds = [i \in Items |-> 0]
    /\ tk_op = "init"
    /\ ngets = 0
    /\ tk_result = <<>>
    \* no other instance exists in this behaviour
    /\ heap = <<>>
    /\ heap_ret = None
    /\ popped = <<>>
    /\ npush = 0
    /\ max_heap = <<>>
    /\ min_heap = <<>>
    /\ fed = <<>>
    /\ med_ret = NotCalled
    /\ window_size = 0
    /\ threshold = DefaultThreshold
    /\ values = <<>>
    /\ mean = RInt(0)
    /\ variance = RInt(0)
    /\ an_ret = FALSE
    /\ stream = <<>>
    /\ trips = <<>>
    /\ session = "none"
    /\ response = NoResponse

TopK_add ==
    /\ obj = "TopKFrequent"
    /\ SumOver(nadds, Items) < MaxAdds
    \* an instance is fed, then queried (top_pickup_zones, api.py lines 236-241)
    /\ ngets = 0
    /\ \E item \in Items, count \in Deltas :
          LET c == add_counts(counts, item, count)
          IN  /\ counts' = c
              /\ tk_heap' = add_heap(k, tk_heap, item, c[item])
              /\ nadds' = [nadds EXCEPT ![item] = @ + 1]
    /\ tk_op' = "add"
    /\ tk_result' = <<>>
    /\ UNCHANGED <<k, ngets>>
    /\ UNCHANGED <<obj, apiVars, heapVars, medianVars, anomalyVars>>

TopK_get_top_k ==
    /\ obj = "TopKFrequent"
    /\ tk_result' = get_top_k(tk_heap).result
    /\ tk_heap' = get_top_k(tk_heap).heap
    /\ tk_op' = "get_top_k"
    /\ ngets' = IF ngets < 2 THEN ngets + 1 ELSE ngets
    /\ UNCHANGED <<k, counts, nadds>>
    /\ UNCHANGED <<obj, apiVars, heapVars, medianVars, anomalyVars>>

(***************************************************************************)
(* class MedianCalculator.  The two heaps hold raw values.                 *)
(***************************************************************************)
swap_values(h, i, j) == [h EXCEPT ![i + 1] = h[j + 1], ![j + 1] = h[i + 1]]

RECURSIVE max_heapify_up(_, _)
max_heapify_up(h, i) ==
    IF i > 0
    THEN LET p == parent(i)
         IN  IF h[p + 1] >= h[i + 1]
             THEN h
             ELSE max_heapify_up(swap_values(h, i, p), p)
    ELSE h

RECURSIVE min_heapify_up(_, _)
min_heapify_up(h, i) ==
    IF i > 0
    THEN LET p == parent(i)
         IN  IF h[p + 1] <= h[i + 1]
             THEN h
             ELSE min_heapify_up(swap_values(h, i, p), p)
    ELSE h

RECURSIVE max_heapify_down(_, _)
max_heapify_down(h, i) ==
    LET lf == left(i)
        rt == right(i)
        l1 == IF lf < Len(h) /\ h[lf + 1] > h[i + 1] THEN lf ELSE i
        largest == IF rt < Len(h) /\ h[rt + 1] > h[l1 + 1] THEN rt ELSE l1
    IN  IF largest = i
        THEN h
        ELSE max_heapify_down(swap_values(h, i, largest), largest)

RECURSIVE min_heapify_down(_, _)
min_heapify_down(h, i) ==
    LET lf == left(i)
        rt == right(i)
        s1 == IF lf < Len(h) /\ h[lf + 1] < h[i + 1] THEN lf ELSE i
        smallest == IF rt < Len(h) /\ h[rt + 1] < h[s1 + 1] THEN rt ELSE s1
    IN  IF smallest = i
        THEN h
        ELSE min_heapify_down(swap_values(h, i, smallest), smallest)

\* _extract_max: the heap left, the value returned, whether ValueError was raised
extract_max(h) ==
    IF h = <<>>
    THEN [heap |-> h, ret |-> None, raised |-> TRUE]
    ELSE IF Len(h) = 1
    THEN [heap |-> <<>>, ret |-> h[1], raised |-> FALSE]
    ELSE LET last == h[Len(h)]
             rest == SubSeq(h, 1, Len(h) - 1)
         IN  [heap |-> max_heapify_down([rest EXCEPT ![1] = last], 0),
              ret |-> h[1], raised |-> FALSE]

\* _extract_min
extract_min(h) ==
    IF h = <<>>
    THEN [heap |-> h, ret |-> None, raised |-> TRUE]
    ELSE IF Len(h) = 1
    THEN [heap |-> <<>>, ret |-> h[1], raised |-> FALSE]
    ELSE LET last == h[Len(h)]
             rest == SubSeq(h, 1, Len(h) - 1)
         IN  [heap |-> min_heapify_down([rest EXCEPT ![1] = last], 0),
              ret |-> h[1], raised |-> FALSE]

\* add, lines 221-228: the value goes to the lower or to the upper heap
median_insert(maxh, minh, value) ==
    IF maxh = <<>> \/ value <= maxh[1]
    THEN [max_heap |-> max_heapify_up(Append(maxh, value), Len(maxh)),
          min_heap |-> minh]
    ELSE [max_heap |-> maxh,
          min_heap |-> min_heapify_up(Append(minh, value), Len(minh))]

\* mutant of median_balance: only an overfull lower heap is rebalanced
median_balance_lower_only(maxh, minh) ==
    IF Len(maxh) > Len(minh) + 1
    THEN LET e == extract_max(maxh)
         IN  [max_heap |-> e.heap,
              min_heap |-> min_heapify_up(Append(minh, e.ret), Len(minh)),
              raised |-> e.raised]
    ELSE [max_heap |-> maxh, min_heap |-> minh, raised |-> FALSE]

\* add, lines 231-240: balance heaps; a ValueError from _extract_max/_extract_min
\* propagates before the append
median_balance(maxh, minh) ==
    IF Len(maxh) > Len(minh) + 1
    THEN LET e == extract_max(maxh)
         IN  IF e.raised
             THEN [max_heap |-> maxh, min_heap |-> minh, raised |-> TRUE]
             ELSE [max_heap |-> e.heap,
                   min_heap |-> min_heapify_up(Append(minh, e.ret), Len(minh)),
                   raised |-> FALSE]
    ELSE IF Len(minh) > Len(maxh) + 1
    THEN LET e == extract_min(minh)
         IN  IF e.raised
             THEN [max_heap |-> maxh, min_heap |-> minh, raised |-> TRUE]
             ELSE [max_heap |-> max_heapify_up(Append(maxh, e.ret), Len(maxh)),
                   min_heap |-> e.heap,
                   raised |-> FALSE]
    ELSE [max_heap |-> maxh, min_heap |-> minh, raised |-> FALSE]

\* MedianCalculator.add
median_add(maxh, minh, value) ==
    LET s == median_insert(maxh, minh, value)
    IN  median_balance(s.max_heap, s.min_heap)

\* mutant of get_median: equal sizes return the lower top, not the average
get_median_lower_top(maxh, minh) ==
    IF maxh = <<>> /\ minh = <<>>
    THEN [called |-> TRUE, raised |-> TRUE, ret |-> None]
    ELSE IF Len(maxh) >= Len(minh)
    THEN [called |-> TRUE, raised |-> FALSE, ret |-> RInt(maxh[1])]
    ELSE [called |-> TRUE, raised |-> FALSE, ret |-> RInt(minh[1])]

\* mutant of get_median: "or" for "and" in the empty test
get_median_either_empty(maxh, minh) ==
    IF maxh = <<>> \/ minh = <<>>
    THEN [called |-> TRUE, raised |-> TRUE, ret |-> None]
    ELSE IF Len(maxh) = Len(minh)
    THEN [called |-> TRUE, raised |-> FALSE, ret |-> Rat(maxh[1] + minh[1], 2)]
    ELSE IF Len(maxh) > Len(minh)
    THEN [called |-> TRUE, raised |-> FALSE, ret |-> RInt(maxh[1])]
    ELSE [called |-> TRUE, raised |-> FALSE, ret |-> RInt(minh[1])]

\* MedianCalculator.get_median: the number returned, or ValueError raised
get_median(maxh, minh) ==
    IF maxh = <<>> /\ minh = <<>>
    THEN [called |-> TRUE, raised |-> TRUE, ret |-> None]
    ELSE IF Len(maxh) = Len(minh)
    THEN [called |-> TRUE, raised |-> FALSE, ret |-> Rat(maxh[1] + minh[1], 2)]
    ELSE IF Len(maxh) > Len(minh)
    THEN [called |-> TRUE, raised |-> FALSE, ret |-> RInt(maxh[1])]
    ELSE [called |-> TRUE, raised |-> FALSE, ret |-> RInt(minh[1])]

MedianInit ==
    /\ obj = "MedianCalculator"
    /\ max_heap = <<>>
    /\ min_heap = <<>>
    /\ fed = <<>>
    /\ med_ret = NotCalled
    \* no other instance exists in this behaviour
    /\ heap = <<>>
    /\ heap_ret = None
    /\ popped = <<>>
    /\ npush = 0
    /\ k = 0
    /\ tk_heap = <<>>
    /\ counts = <<>>
    /\ nadds = <<>>
    /\ tk_op = "none"
    /\ ngets = 0
    /\ tk_result = <<>>
    /\ window_size = 0
    /\ threshold = DefaultThreshold
    /\ values = <<>>
    /\ mean = RInt(0)
    /\ variance = RInt(0)
    /\ an_ret = FALSE
    /\ stream = <<>>
    /\ trips = <<>>
    /\ session = "none"
    /\ response = NoResponse

Median_add ==
    /\ obj = "MedianCalculator"
    /\ Len(fed) < MaxFed
    /\ \E value \in Numbers :
          LET r == median_add(max_heap, min_heap, value)
          IN  /\ max_heap' = r.max_heap
              /\ min_heap' = r.min_heap
              /\ fed' = Append(fed, value)
              /\ med_ret' = [NotCalled EXCEPT !.raised = r.raised]
    /\ UNCHANGED <<obj, apiVars, heapVars, topkVars, anomalyVars>>

Median_get_median ==
    /\ obj = "MedianCalculator"
    /\ med_ret' = get_median(max_heap, min_heap)
    /\ UNCHANGED <<max_heap, min_heap, fed>>
    /\ UNCHANGED <<obj, apiVars, heapVars, topkVars, anomalyVars>>

(***************************************************************************)
(* class AnomalyDetector.  mean and variance are exact rationals.          *)
(***************************************************************************)
\* mutant of window_append: pop() for pop(0), the newest value is dropped
window_append_drop_newest(w, vals, value) ==
    LET a == Append(vals, value)
    IN  IF Len(a) > w THEN SubSeq(a, 1, Len(a) - 1) ELSE a

\* lines 267-271: append, then keep only recent values
window_append(w, vals, value) ==
    LET a == Append(vals, value)
    IN  IF Len(a) > w THEN Tail(a) ELSE a

\* mutant of mean_update: value / n for (value - old_mean) / n
mean_update_no_subtract(old_mean, value, n) ==
    RAdd(old_mean, RDiv(RInt(value), RInt(n)))

\* line 282: online mean update
mean_update(old_mean, value, n) ==
    RAdd(old_mean, RDiv(RSub(RInt(value), old_mean), RInt(n)))

\* mutant of variance_update: (value - old_mean) squared, the new mean is not used
variance_update_old_mean(var, old_mean, new_mean, value, n) ==
    RDiv(RAdd(RMul(RInt(n - 2), var),
              RMul(RSub(RInt(value), old_mean), RSub(RInt(value), old_mean))),
         RInt(n - 1))

\* line 286: online variance update
variance_update(var, old_mean, new_mean, value, n) ==
    RDiv(RAdd(RMul(RInt(n - 2), var),
              RMul(RSub(RInt(value), old_mean), RSub(RInt(value), new_mean))),
         RInt(n - 1))

\* mutant of is_anomaly: the "** 0.5" is missing, std_dev = variance
is_anomaly_no_sqrt(var, new_mean, value, t) ==
    IF ~RLess(RInt(0), var)
    THEN FALSE
    ELSE RLess(t, RDiv(RAbs(RSub(RInt(value), new_mean)), var))

\* lines 292-297: z_score > threshold with std_dev = variance ** 0.5, decided on the
\* squares: |value - mean| / sqrt(variance) > t  iff  (value - mean)^2 > t^2 * variance
is_anomaly(var, new_mean, value, t) ==
    IF ~RLess(RInt(0), var)
    THEN FALSE
    ELSE LET dev == RAbs(RSub(RInt(value), new_mean))
         IN  IF RLess(t, RInt(0))
             THEN TRUE
             ELSE RLess(RMul(RMul(t, t), var), RMul(dev, dev))

\* AnomalyDetector.add: the fields after the call and the value returned
anomaly_add(w, t, vals, m, var, value) ==
    LET a == window_append(w, vals, value)
        n == Len(a)
    IN  IF n = 1
        THEN [values |-> a, mean |-> RInt(value), variance |-> RInt(0), ret |-> FALSE]
        ELSE LET new_mean == mean_update(m, value, n)
                 new_var == IF n > 1
                            THEN variance_update(var, m, new_mean, value, n)
                            ELSE var
             IN  [values |-> a, mean |-> new_mean, variance |-> new_var,
                  ret |-> IF n < 3 THEN FALSE
                          ELSE is_anomaly(new_var, new_mean, value, t)]

AnomalyInit ==
    /\ obj = "AnomalyDetector"
    /\ window_size \in 1..MaxWindow
    /\ threshold = DefaultThreshold
    /\ values = <<>>
    /\ mean = RInt(0)
    /\ variance = RInt(0)
    /\ an_ret = FALSE
    /\ stream = <<>>
    \* no other instance exists in this behaviour
    /\ heap = <<>>
    /\ heap_ret = None
    /\ popped = <<>>
    /\ npush = 0
    /\ k = 0
    /\ tk_heap = <<>>
    /\ counts = <<>>
    /\ nadds = <<>>
    /\ tk_op = "none"
    /\ ngets = 0
    /\ tk_result = <<>>
    /\ max_heap = <<>>
    /\ min_heap = <<>>
    /\ fed = <<>>
    /\ med_ret = NotCalled
    /\ trips = <<>>
    /\ session = "none"
    /\ response = NoResponse

Anomaly_add ==
    /\ obj = "AnomalyDetector"
    /\ Len(stream) < MaxStream
    /\ \E value \in Samples :
          LET r == anomaly_add(window_size, threshold, values, mean, variance, value)
          IN  /\ values' = r.values
              /\ mean' = r.mean
              /\ variance' = r.variance
              /\ an_ret' = r.ret
              /\ stream' = Append(stream, value)
    /\ UNCHANGED <<window_size, threshold>>
    /\ UNCHANGED <<obj, apiVars, heapVars, topkVars, medianVars>>

\* AnomalyDetector() with the default window_size and threshold
AnomalyDefaultInit ==
    /\ obj = "AnomalyDetector()"
    /\ window_size = DefaultWindowSize
    /\ threshold = DefaultThreshold
    /\ values = <<>>
    /\ mean = RInt(0)
    /\ variance = RInt(0)
    /\ an_ret = FALSE
    /\ stream = <<>>
    \* no other instance exists in this behaviour
    /\ heap = <<>>
    /\ heap_ret = None
    /\ popped = <<>>
    /\ npush = 0
    /\ k = 0
    /\ tk_heap = <<>>
    /\ counts = <<>>
    /\ nadds = <<>>
    /\ tk_op = "none"
    /\ ngets = 0
    /\ tk_result = <<>>
    /\ max_heap = <<>>
    /\ min_heap = <<>>
    /\ fed = <<>>
    /\ med_ret = NotCalled
    /\ trips = <<>>
    /\ session = "none"
    /\ response = NoResponse

\* no outlier has been fed yet
BaselineOnly(s) == \A i \in 1..Len(s) : s[i] \in Baseline

\* AnomalyDetector.add of a baseline value, while the stream is a stable baseline
Anomaly_add_baseline ==
    /\ obj = "AnomalyDetector()"
    /\ BaselineOnly(stream)
    /\ Len(stream) < MaxBaseline
    /\ \E value \in Baseline :
          LET r == anomaly_add(window_size, threshold, values, mean, variance, value)
          IN  /\ values' = r.values
              /\ mean' = r.mean
              /\ variance' = r.variance
              /\ an_ret' = r.ret
              /\ stream' = Append(stream, value)
    /\ UNCHANGED <<window_size, threshold>>
    /\ UNCHANGED <<obj, apiVars, heapVars, topkVars, medianVars>>

\* AnomalyDetector.add of the one outlier that ends the baseline
Anomaly_add_outlier ==
    /\ obj = "AnomalyDetector()"
    /\ BaselineOnly(stream)
    /\ \E value \in Outliers :
          LET r == anomaly_add(window_size, threshold, values, mean, variance, value)
          IN  /\ values' = r.values
              /\ mean' = r.mean
              /\ variance' = r.variance
              /\ an_ret' = r.ret
              /\ stream' = Append(stream, value)
    /\ UNCHANGED <<window_size, threshold>>
    /\ UNCHANGED <<obj, apiVars, heapVars, topkVars, medianVars>>

(***************************************************************************)
(* GET /median_speed_by_hour, src/app/api.py lines 253-277.  The handler   *)
(* builds its own MedianCalculator; max_heap, min_heap, fed and med_ret    *)
(* show that local instance after the request.                             *)
(***************************************************************************)
Hours == 0..MaxHour
Speeds == {12, 20, 35}
TripRows == [pickup_hour : Hours, trip_speed_kmh : Speeds]

\* select(Trip.trip_speed_kmh).where(Trip.pickup_hour == hour), then
\* speeds = [float(row[0]) for row in rows]
RECURSIVE select_speeds(_, _)
select_speeds(t, hour) ==
    IF t = <<>>
    THEN <<>>
    ELSE IF Head(t).pickup_hour = hour
    THEN <<Head(t).trip_speed_kmh>> \o select_speeds(Tail(t), hour)
    ELSE select_speeds(Tail(t), hour)

\* "for speed in speeds: median_calc.add(speed)" on a fresh MedianCalculator; an
\* exception out of add ends the loop
RECURSIVE feed_speeds(_, _, _)
feed_speeds(maxh, minh, speeds) ==
    IF speeds = <<>>
    THEN [max_heap |-> maxh, min_heap |-> minh, raised |-> FALSE]
    ELSE LET r == median_add(maxh, minh, Head(speeds))
         IN  IF r.raised
             THEN r
             ELSE feed_speeds(r.max_heap, r.min_heap, Tail(speeds))

\* the response of the handler: the jsonify(...) payload, or the exception that left
\* the view function (the handler has a finally clause and no except clause)
handler_response(hour, speeds, m) ==
    IF m.raised
    THEN [kind |-> "unhandled exception", error |-> "ValueError"]
    ELSE [kind |-> "json",
          hour |-> hour,
          median_speed_kmh |-> m.ret,
          sample_count |-> Len(speeds)]

ApiInit ==
    /\ obj = "median_speed_by_hour"
    /\ trips \in UNION {[1..n -> TripRows] : n \in 0..MaxTrips}
    /\ session = "none"
    /\ response = NoResponse
    \* the handler has not built its calculator yet, and no other instance exists
    /\ max_heap = <<>>
    /\ min_heap = <<>>
    /\ fed = <<>>
    /\ med_ret = NotCalled
    /\ heap = <<>>
    /\ heap_ret = None
    /\ popped = <<>>
    /\ npush = 0
    /\ k = 0
    /\ tk_heap = <<>>
    /\ counts = <<>>
    /\ nadds = <<>>
    /\ tk_op = "none"
    /\ ngets = 0
    /\ tk_result = <<>>
    /\ window_size = 0
    /\ threshold = DefaultThreshold
    /\ values = <<>>
    /\ mean = RInt(0)
    /\ variance = RInt(0)
    /\ an_ret = FALSE
    /\ stream = <<>>

\* one request: session opened, rows selected, calculator fed, get_median() called,
\* payload returned or exception propagated, session closed by the finally clause
median_speed_by_hour ==
    /\ obj = "median_speed_by_hour"
    /\ \E hour \in Hours :
          LET speeds == select_speeds(trips, hour)
              calc == feed_speeds(<<>>, <<>>, speeds)
              m == IF calc.raised
                   THEN [called |-> FALSE, raised |-> TRUE, ret |-> None]
                   ELSE get_median(calc.max_heap, calc.min_heap)
          IN  /\ max_heap' = calc.max_heap
              /\ min_heap' = calc.min_heap
              /\ fed' = speeds
              /\ med_ret' = m
              /\ response' = handler_response(hour, speeds, m)
              /\ session' = "closed"
    /\ UNCHANGED trips
    /\ UNCHANGED <<obj, heapVars, topkVars, anomalyVars>>

(***************************************************************************)
(* Specifications: one per class or handler, and their union.              *)
(***************************************************************************)
HeapNext == Push \/ Pop \/ Peek
TopKNext == TopK_add \/ TopK_get_top_k
MedianNext == Median_add \/ Median_get_median
AnomalyNext == Anomaly_add
AnomalyDefaultNext == Anomaly_add_baseline \/ Anomaly_add_outlier
ApiNext == median_speed_by_hour

SpecHeap == HeapInit /\ [][HeapNext]_vars
SpecTopK == TopKInit /\ [][TopKNext]_vars
SpecMedian == MedianInit /\ [][MedianNext]_vars
SpecAnomaly == AnomalyInit /\ [][AnomalyNext]_vars
SpecAnomalyDefault == AnomalyDefaultInit /\ [][AnomalyDefaultNext]_vars
SpecApi == ApiInit /\ [][ApiNext]_vars

Init == HeapInit \/ TopKInit \/ MedianInit \/ AnomalyInit \/ AnomalyDefaultInit \/ ApiInit
Next == HeapNext \/ TopKNext \/ MedianNext \/ AnomalyNext \/ AnomalyDefaultNext \/ ApiNext

Spec == Init /\ [][Next]_vars

(***************************************************************************)
(* Properties.                                                             *)
(***************************************************************************)
NonDecreasing(s) == \A i \in 1..(Len(s) - 1) : s[i] <= s[i + 1]
NonIncreasing(s) == \A i \in 1..(Len(s) - 1) : s[i] >= s[i + 1]

\* reference ascending sort, by repeatedly taking the least remaining value
RECURSIVE Remove(_, _)
Remove(s, x) ==
    IF s = <<>> THEN <<>>
    ELSE IF Head(s) = x THEN Tail(s) ELSE <<Head(s)>> \o Remove(Tail(s), x)

RECURSIVE Sorted(_)
Sorted(s) ==
    IF s = <<>> THEN <<>>
    ELSE LET m == CHOOSE x \in {s[i] : i \in 1..Len(s)} :
                     \A j \in 1..Len(s) : x <= s[j]
         IN  <<m>> \o Sorted(Remove(s, m))

\* the median of a non-empty sequence by fully sorting it
SortedMedian(s) ==
    LET t == Sorted(s)
        n == Len(s)
    IN  IF n % 2 = 1
        THEN RInt(t[(n + 1) \div 2])
        ELSE Rat(t[n \div 2] + t[n \div 2 + 1], 2)

\* C1: after each add of a sequence fed to a fresh MedianCalculator, get_median()
\* returns the median of the values fed so far as computed by sorting them: the
\* middle element for an odd count, the average of the two middle ones for an even
\* count.
C1_MedianOfEveryPrefix ==
    (obj = "MedianCalculator" /\ fed /= <<>>) =>
        LET r == get_median(max_heap, min_heap)
        IN  /\ ~r.raised
            /\ r.ret = SortedMedian(fed)
            /\ (med_ret.called => med_ret = r)

\* C1 witness: four values fed out of order, a get_median() call made, and the
\* median is the non-integral average of the two middle values.
C1_Witness ==
    /\ obj = "MedianCalculator"
    /\ Len(fed) = 4
    /\ fed[1] > fed[2]
    /\ fed[3] > fed[4]
    /\ med_ret.called
    /\ med_ret.ret[2] = 2

\* C2: the priorities popped since the last push are non-decreasing; in particular
\* pushes on a fresh heap followed by popping until empty pop in non-decreasing
\* priority order.
C2_PopsNonDecreasing ==
    obj = "MinHeap" => NonDecreasing(popped)

\* C2 witness: MaxPush pushes, then every entry popped, with different priorities.
C2_Witness ==
    /\ obj = "MinHeap"
    /\ npush = MaxPush
    /\ heap = <<>>
    /\ Len(popped) = MaxPush
    /\ popped[1] < popped[Len(popped)]

\* C7: after every MedianCalculator.add the two heaps differ in size by at most one
\* and every value of the lower heap is <= every value of the upper heap.
C7_MedianHeapsBalanced ==
    obj = "MedianCalculator" =>
        /\ Abs(Len(max_heap) - Len(min_heap)) <= 1
        /\ \A i \in 1..Len(max_heap) : \A j \in 1..Len(min_heap) :
              max_heap[i] <= min_heap[j]

\* C7 witness: four ascending values fed, so the upper heap overflowed and
\* add moved its minimum into the lower heap.
C7_Witness ==
    /\ obj = "MedianCalculator"
    /\ Len(fed) = 4
    /\ fed[1] < fed[2] /\ fed[2] <= fed[3] /\ fed[3] < fed[4]
    /\ Len(max_heap) = 2
    /\ Len(min_heap) = 2

\* min-heap order of a backing array of (priority, value) tuples
HeapOrdered(h) ==
    \A i \in 1..(Len(h) - 1) : h[parent(i) + 1][1] <= h[i + 1][1]

\* C8: after every MinHeap.push or pop, in any interleaving, the priority at index
\* (i-1)//2 is <= the priority at index i for every non-root index i.
C8_MinHeapOrder ==
    obj = "MinHeap" => HeapOrdered(heap)

\* C8 witness: a pop that returned an entry and left three entries of different
\* priorities behind, followed by no push.
C8_Witness ==
    /\ obj = "MinHeap"
    /\ popped /= <<>>
    /\ heap_ret /= None
    /\ Len(heap) = 3
    /\ heap[1][1] < heap[2][1]
    /\ heap[2][1] /= heap[3][1]

\* the last n elements of s
LastN(s, n) == SubSeq(s, Len(s) - n + 1, Len(s))

Min2(a, b) == IF a < b THEN a ELSE b

\* C9: after any number of AnomalyDetector.add calls with window_size >= 1 the window
\* never holds more than window_size entries, and it holds exactly the most recent
\* min(number of adds, window_size) values in arrival order.
C9_WindowBounded ==
    (obj = "AnomalyDetector" /\ window_size >= 1) =>
        /\ Len(values) <= window_size
        /\ values = LastN(stream, Min2(Len(stream), window_size))

\* C9 witness: more adds than window_size, and the oldest value is gone.
C9_Witness ==
    /\ obj = "AnomalyDetector"
    /\ window_size >= 2
    /\ Len(stream) > window_size + 1
    /\ Len(values) = window_size
    /\ stream[1] /= values[1]
    /\ values[1] /= values[2]

IsConstant(s) == \A i \in 1..Len(s) : s[i] = s[1]

\* C10: feeding the same value v to a fresh AnomalyDetector any number of times,
\* also beyond window_size, keeps variance = 0 after every add, and every add
\* returns false.
C10_ConstantStream ==
    (obj = "AnomalyDetector" /\ stream /= <<>> /\ IsConstant(stream)) =>
        /\ variance = RInt(0)
        /\ an_ret = FALSE

\* C10 witness: the same value fed MaxStream times to a detector whose window of
\* three or more values has already slid.
C10_Witness ==
    /\ obj = "AnomalyDetector"
    /\ window_size >= 3
    /\ Len(stream) = MaxStream
    /\ Len(stream) > window_size
    /\ IsConstant(stream)

\* the counts of a get_top_k() result, in order
ResultCounts(res) == [i \in 1..Len(res) |-> res[i][2]]
ResultItems(res) == {res[i][1] : i \in 1..Len(res)}

\* the m largest values of table c, descending, by repeatedly taking a maximum
RECURSIVE Largest(_, _, _)
Largest(c, S, m) ==
    IF m = 0 \/ S = {} THEN <<>>
    ELSE LET x == CHOOSE y \in S : \A z \in S : c[y] >= c[z]
         IN  <<c[x]>> \o Largest(c, S \ {x}, m - 1)

\* every item fed so far was added exactly once
EachAddedOnce == \A i \in Items : nadds[i] <= 1

\* the first get_top_k() call has just returned
FirstQuery == obj = "TopKFrequent" /\ tk_op = "get_top_k" /\ ngets = 1

\* C3: when n distinct items were each added once with a positive count to a fresh
\* TopKFrequent(k), k >= 1, get_top_k() returns min(k, n) pairs whose counts are the
\* min(k, n) largest counts fed, descending, each paired with an item that carried
\* that count; feeding A:5, B:3, C:8, D:2 with k = 2 yields [(C,8), (A,5)].
C3_TopKOfDistinctItems ==
    (FirstQuery /\ k >= 1 /\ EachAddedOnce) =>
        LET n == Cardinality(DOMAIN counts)
            m == Min2(k, n)
        IN  /\ Len(tk_result) = m
            /\ ResultCounts(tk_result) = Largest(counts, DOMAIN counts, m)
            /\ \A i \in 1..Len(tk_result) :
                  /\ tk_result[i][1] \in DOMAIN counts
                  /\ counts[tk_result[i][1]] = tk_result[i][2]
            /\ Cardinality(ResultItems(tk_result)) = m
            /\ (k = 2 /\ counts = ("A" :> 5 @@ "B" :> 3 @@ "C" :> 8 @@ "D" :> 2)
                  => tk_result = << <<"C", 8>>, <<"A", 5>> >>)

\* C3 witness: A:5, B:3, C:8, D:2 fed once each to TopKFrequent(2), then get_top_k().
C3_Witness ==
    /\ FirstQuery
    /\ k = 2
    /\ EachAddedOnce
    /\ DOMAIN counts = Items
    /\ counts["A"] = 5 /\ counts["B"] = 3 /\ counts["C"] = 8 /\ counts["D"] = 2
    /\ tk_result = << <<"C", 8>>, <<"A", 5>> >>

\* C4: after adds involving fewer than k distinct items (an item may be added several
\* times) get_top_k() returns every distinct item exactly once, descending by count,
\* and nothing else.
C4_FewerThanKItems ==
    (FirstQuery /\ Cardinality(DOMAIN counts) < k) =>
        /\ Len(tk_result) = Cardinality(DOMAIN counts)
        /\ ResultItems(tk_result) = DOMAIN counts
        /\ NonIncreasing(ResultCounts(tk_result))

\* C5: with k >= 1 the bounded heap holds at most k entries after any adds, and
\* get_top_k() returns at most k pairs with counts in non-increasing order.
C5_AtMostK ==
    (obj = "TopKFrequent" /\ k >= 1) =>
        /\ Len(tk_heap) <= k
        /\ (tk_op = "get_top_k" =>
               /\ Len(tk_result) <= k
               /\ NonIncreasing(ResultCounts(tk_result)))

\* C5 witness: more adds than k, an eviction behind, and get_top_k() returning
\* exactly k pairs of different counts.
C5_Witness ==
    /\ FirstQuery
    /\ k >= 2
    /\ SumOver(nadds, Items) = MaxAdds
    /\ Cardinality(DOMAIN counts) > k
    /\ Len(tk_result) = k
    /\ tk_result[1][2] > tk_result[k][2]

\* C6: get_top_k() leaves the tracked heap and the frequency table as they were, and
\* a get_top_k() call right after another returns the same list.
C6_GetTopKNonDestructive ==
    [][tk_op' = "get_top_k" =>
          /\ tk_heap' = tk_heap
          /\ counts' = counts
          /\ (tk_op = "get_top_k" => tk_result' = tk_result)]_vars

\* the outlier call has just returned, after a baseline of Len(stream) - 1 values
OutlierFed ==
    /\ obj = "AnomalyDetector()"
    /\ stream /= <<>>
    /\ stream[Len(stream)] \in Outliers
    /\ BaselineOnly(SubSeq(stream, 1, Len(stream) - 1))

\* C11 as claimed: with the default threshold and window, a baseline of m values
\* within 9..11 followed by the outlier 1000 makes the outlier's add return true
\* for every m with 2 <= m < 100.
C11_OutlierFlaggedFromThreeSamples ==
    (OutlierFed /\ Len(stream) - 1 >= 2 /\ Len(stream) - 1 < DefaultWindowSize) =>
        an_ret = TRUE

\* C11 as amended: the outlier's add returns true for every baseline length m with
\* 8 <= m < 100, and false for every shorter baseline.
C11_OutlierFlaggedFromNineSamples ==
    (OutlierFed /\ Len(stream) - 1 < DefaultWindowSize) =>
        (an_ret = TRUE <=> Len(stream) - 1 >= 8)

\* C11 witness: the outlier flagged after a baseline of eight values that are not
\* all equal.
C11_Witness ==
    /\ OutlierFed
    /\ Len(stream) = 9
    /\ ~IsConstant(SubSeq(stream, 1, 8))
    /\ an_ret = TRUE

\* C12: a TopKFrequent with k < 1 or an AnomalyDetector with window_size < 1 is
\* rejected at construction, so no add or get_top_k call ever runs on one.
C12_InvalidConfigurationRejected ==
    /\ (obj = "TopKFrequent" /\ tk_op \in {"add", "get_top_k"}) => k >= 1
    /\ (obj \in {"AnomalyDetector", "AnomalyDetector()"} /\ stream /= <<>>) =>
           window_size >= 1

\* C13: pop and peek on an empty heap give the empty signal (None), not an entry,
\* and leave the heap empty; peek on a non-empty heap returns the entry the next pop
\* would return and leaves the heap's contents and length unchanged.
C13_EmptySignalAndPeek ==
    [][npush' = npush =>
          /\ heap = <<>> => (heap' = <<>> /\ heap_ret' = None)
          /\ (heap /= <<>> /\ popped' = popped) =>
                 /\ heap' = heap
                 /\ Len(heap') = Len(heap)
                 /\ heap_ret' /= None
                 /\ heap_ret' = pop(heap').ret]_vars

\* C13 witness: every pushed entry was popped and a further pop or peek on the empty
\* heap returned None.
C13_Witness ==
    /\ obj = "MinHeap"
    /\ npush >= 2
    /\ heap = <<>>
    /\ Len(popped) = npush
    /\ heap_ret = None

\* C14: get_median() raises exactly when no value was ever added; after a first add
\* it returns a number; it leaves both heaps as they were; add never raises.
C14_NoDataOnlyWhenEmpty ==
    [][/\ med_ret'.called =>
             /\ med_ret'.raised <=> fed' = <<>>
             /\ ~med_ret'.raised => (Len(med_ret'.ret) = 2 /\ med_ret'.ret[2] >= 1)
             /\ max_heap' = max_heap
             /\ min_heap' = min_heap
       /\ ~med_ret'.called => ~med_ret'.raised]_vars

\* C14 witness: get_median() returned a number after a single add, the upper heap
\* still empty.
C14_Witness ==
    /\ obj = "MedianCalculator"
    /\ Len(fed) = 1
    /\ min_heap = <<>>
    /\ med_ret.called
    /\ ~med_ret.raised
    /\ med_ret.ret = RInt(fed[1])

RECURSIVE SeqSum(_)
SeqSum(s) == IF s = <<>> THEN 0 ELSE Head(s) + SeqSum(Tail(s))

\* arithmetic mean of a non-empty sequence of integers
MeanOf(s) == Rat(SeqSum(s), Len(s))

\* sum over s of (x - m)^2
RECURSIVE SumSqDev(_, _)
SumSqDev(s, m) ==
    IF s = <<>> THEN RInt(0)
    ELSE LET d == RSub(RInt(Head(s)), m)
         IN  RAdd(RMul(d, d), SumSqDev(Tail(s), m))

\* sample variance of a sequence of two or more integers
SampleVariance(s) == RDiv(SumSqDev(s, MeanOf(s)), RInt(Len(s) - 1))

\* C15: while no value has been evicted (adds so far <= window_size), after every add
\* with n >= 2 values the running mean is the arithmetic mean of the window and the
\* running variance is its sample variance, exactly.
C15_WelfordExactBeforeEviction ==
    (/\ obj \in {"AnomalyDetector", "AnomalyDetector()"}
     /\ Len(stream) <= window_size
     /\ Len(values) >= 2) =>
        /\ mean = MeanOf(values)
        /\ variance = SampleVariance(values)

\* C15 witness: three different values in a window of three, none evicted.
C15_Witness ==
    /\ obj = "AnomalyDetector"
    /\ window_size = 3
    /\ Len(stream) = 3
    /\ values[1] /= values[2] /\ values[2] /= values[3] /\ values[1] /= values[3]
    /\ RLess(RInt(0), variance)

\* number of occurrences of entry e in list s
CountIn(s, e) == Cardinality({i \in 1..Len(s) : s[i] = e})

EntriesOf(s) == {s[i] : i \in 1..Len(s)}

\* list t holds the entries of list s, as a multiset, minus one `out` plus one `in`
Replaced(s, t, out, in) ==
    \A e \in EntriesOf(s) \cup EntriesOf(t) \cup {out, in} :
        CountIn(t, e) = CountIn(s, e) - (IF e = out THEN 1 ELSE 0)
                                      + (IF e = in THEN 1 ELSE 0)

\* list t holds the entries of list s, as a multiset, plus one `in`
Added(s, t, in) ==
    \A e \in EntriesOf(s) \cup EntriesOf(t) \cup {in} :
        CountIn(t, e) = CountIn(s, e) + (IF e = in THEN 1 ELSE 0)

\* list t holds the entries of list s, as a multiset, minus one `out`
Removed(s, t, out) ==
    \A e \in EntriesOf(s) \cup EntriesOf(t) \cup {out} :
        CountIn(t, e) = CountIn(s, e) - (IF e = out THEN 1 ELSE 0)

\* the item of the add call that a TopKFrequent step made
AddedItem == CHOOSE i \in Items : nadds'[i] /= nadds[i]

\* the frequency of item i before it is in the table is 0
CountOf(c, i) == IF i \in DOMAIN c THEN c[i] ELSE 0

\* C16: an add while the heap holds k entries evicts the heap minimum and inserts
\* (new_count, item) iff the item's new count is strictly greater than the minimum's
\* priority; otherwise the heap is unchanged; the frequency table is incremented by
\* delta either way.
C16_EvictIffStrictlyGreater ==
    [][(tk_op' = "add" /\ nadds' /= nadds /\ k >= 1 /\ Len(tk_heap) = k) =>
          LET item == AddedItem
              new_count == counts'[item]
          IN  /\ new_count - CountOf(counts, item) \in Deltas
              /\ \A i \in DOMAIN counts : i /= item => counts'[i] = counts[i]
              /\ DOMAIN counts' = DOMAIN counts \cup {item}
              /\ IF new_count > tk_heap[1][1]
                 THEN /\ Replaced(tk_heap, tk_heap', tk_heap[1], <<new_count, item>>)
                      /\ \A i \in 1..Len(tk_heap) : tk_heap[1][1] <= tk_heap[i][1]
                 ELSE tk_heap' = tk_heap]_vars

\* C16 witness: an add of an item whose new count equals the minimum of a full heap
\* has just left the heap alone while the table moved on.
C16_Witness ==
    /\ obj = "TopKFrequent"
    /\ tk_op = "add"
    /\ k = 2
    /\ Len(tk_heap) = 2
    /\ \E i \in DOMAIN counts :
          /\ counts[i] = tk_heap[1][1]
          /\ \A j \in 1..Len(tk_heap) : tk_heap[j][2] /= i

\* C17: a pop on a non-empty heap returns an entry of minimum priority among those
\* held and removes exactly that entry; a push adds exactly the pushed entry.
C17_PopRemovesMinimum ==
    [][/\ (npush' = npush /\ heap /= <<>> /\ popped' /= popped) =>
             /\ heap_ret' \in EntriesOf(heap)
             /\ \A i \in 1..Len(heap) : heap_ret'[1] <= heap[i][1]
             /\ Removed(heap, heap', heap_ret')
             /\ Len(heap') = Len(heap) - 1
       /\ npush' = npush + 1 =>
             /\ Len(heap') = Len(heap) + 1
             /\ \E p \in Priorities, v \in Payloads : Added(heap, heap', <<p, v>>)]_vars

\* C17 witness: a pop out of six entries returned the minimum and left five, among
\* them entries of equal priority and different payloads.
C17_Witness ==
    /\ obj = "MinHeap"
    /\ npush = MaxPush
    /\ Len(popped) = 1
    /\ Len(heap) = MaxPush - 1
    /\ heap_ret /= None
    /\ heap_ret[1] = heap[1][1]
    /\ heap_ret[2] /= heap[1][2]
    /\ heap[2][1] /= heap[3][1]

\* C18: every entry (count, item) in the bounded heap, and every pair get_top_k()
\* returns, records a count that is at most the item's current frequency, and the
\* count of an entry that an add inserts is the item's frequency at that moment.
C18_SnapshotCounts ==
    [][/\ \A i \in 1..Len(tk_heap') :
             /\ tk_heap'[i][2] \in DOMAIN counts'
             /\ tk_heap'[i][1] <= counts'[tk_heap'[i][2]]
       /\ \A i \in 1..Len(tk_result') :
             /\ tk_result'[i][1] \in DOMAIN counts'
             /\ tk_result'[i][2] <= counts'[tk_result'[i][1]]
       /\ (tk_op' = "add" /\ nadds' /= nadds) =>
             \A e \in EntriesOf(tk_heap') :
                 CountIn(tk_heap', e) > CountIn(tk_heap, e) =>
                     e = <<counts'[AddedItem], AddedItem>>
       /\ tk_op' = "get_top_k" =>
             \A i \in 1..Len(tk_result') :
                 <<tk_result'[i][2], tk_result'[i][1]>> \in EntriesOf(tk_heap)]_vars

\* C18 witness: get_top_k() returned a pair whose count is below the item's current
\* frequency (the item was added again after that entry was inserted), next to a pair
\* of another item.
C18_Witness ==
    /\ obj = "TopKFrequent"
    /\ tk_op = "get_top_k"
    /\ ngets = 1
    /\ \E i, j \in 1..Len(tk_result) :
          /\ tk_result[i][2] < counts[tk_result[i][1]]
          /\ tk_result[j][1] /= tk_result[i][1]

\* C19: a request to median_speed_by_hour for an hour with no trips is answered with
\* an empty-result payload, never with the escaped no-data error of get_median(), and
\* the database session is closed after every request.
C19_NoDataTranslated ==
    (obj = "median_speed_by_hour" /\ response /= NoResponse) =>
        /\ session = "closed"
        /\ fed = <<>> => (response.kind = "json" /\ response.sample_count = 0)

\* every handled request leaves its session closed
SessionClosedAfterRequest ==
    (obj = "median_speed_by_hour" /\ response /= NoResponse) => session = "closed"

\* requests for hours that have trips are answered with the median of their speeds
AnsweredWhenTrips ==
    (obj = "median_speed_by_hour" /\ response /= NoResponse /\ fed /= <<>>) =>
        /\ response.kind = "json"
        /\ response.sample_count = Len(fed)
        /\ response.median_speed_kmh = med_ret.ret

=============================================================================
